---- MODULE Spec2Model ----
(***************************************************************************)
(* Model of src/curl_my_files.py: TokenManager and main().                 *)
(*                                                                         *)
(* The Python process is one thread of control.  A signal handler runs     *)
(* between two steps of that thread, on top of whatever it interrupted;    *)
(* because _signal_handler always ends in sys.exit(1), the interrupted     *)
(* code is never resumed: SystemExit unwinds all of it.  The children      *)
(* (curl, gpg) are separate OS processes and take their own steps.         *)
(* shred and os.remove are modelled as atomic calls whose result on a      *)
(* given file is a property of the environment of the run.                 *)
(* __init__ replaces the SIGINT handler, so no KeyboardInterrupt is raised *)
(* and the `except KeyboardInterrupt` clause of main() is never entered.   *)
(***************************************************************************)
EXTENDS Integers, Sequences, FiniteSets

VARIABLES
    pc,           \* position of the main line: the run() step about to start, "atexit", "exited"
    cpc,          \* position inside the cleanup() invocation now executing, or Idle
    inHandler,    \* TRUE while the executing cleanup() was called by _signal_handler
    exitStatus,   \* -1 until the interpreter has fixed the exit status, then 0 or 1
    files,        \* the two temporary files: [exists, content]
    token,        \* self.token: "None" or "tok"
    curl,         \* curl child writing tmp_gpg: "none", "running", "done", "killed"
    gpg,          \* gpg child: "none", "running", "read", "wrote", "exited", "killed"
    fetched,      \* target files written by download_file
    stderr,       \* messages printed by fail()
    shredResult,  \* environment: what `shred -vfz -n 3 f` does on each file in this run
    removeOk,     \* environment: whether os.remove(f) succeeds on each file in this run
    steps,        \* history: the run() steps started, in order
    okSteps,      \* history: the run() steps that succeeded
    failedStep,   \* history: the run() step that called fail(), or "none"
    pw,           \* history: what prompt_passphrase obtained
    spawned,      \* history: how many times each network/decryption subprocess was started
    gpgTimedOut,  \* history: communicate() raised TimeoutExpired
    signals,      \* history: number of SIGINT/SIGTERM delivered
    cleanupCalls, \* history: number of cleanup() invocations started
    dirty,        \* history: a child wrote a temporary file since the executing or latest cleanup() began
    cleanupDone,  \* history: number of cleanup() invocations that ran to their end
    attempts,     \* history: deletion calls made on each file by the executing cleanup()
    branch,       \* history: how the latest cleanup() left each file
    snap,         \* history: files and token as the latest completed cleanup() left them
    raised,       \* history: an exception escaped from cleanup()
    authUsed      \* history: the values of self.token sent in an Authorization header

progVars == <<pc, cpc, inHandler, exitStatus, files, token, curl, gpg, fetched, stderr>>
envVars == <<shredResult, removeOk>>
histVars == <<steps, okSteps, failedStep, pw, spawned, gpgTimedOut, signals,
              cleanupCalls, dirty, cleanupDone, attempts, branch, snap, raised, authUsed>>
vars == <<progVars, envVars, histVars>>

\* Bound on the number of signals delivered in one run.
MaxSignals == 2

\* self.tmp_gpg.name, self.tmp_token.name in the order cleanup() passes them.
TmpFiles == <<"tmp_gpg", "tmp_token">>

TmpNames == {TmpFiles[i] : i \in 1..Len(TmpFiles)}

\* The two files run() downloads with the token.
Targets == {"setup_rpi.py", "config.ini"}

Idle == [op |-> "idle", i |-> 0]

NoSnap == [valid |-> FALSE]

\* tempfile.NamedTemporaryFile(delete=False): the file exists and is empty.
\* followed by os.chmod(name, 0o600).
NewTempFile == [exists |-> TRUE, content |-> "empty", mode |-> "0600"]

Absent == [exists |-> FALSE, content |-> "none", mode |-> "none"]

\* A child process opens path f for writing and writes content c: an existing
\* file keeps its mode, a missing one is created with the mode the umask gives.
Written(f, c) ==
    [exists |-> TRUE, content |-> c, mode |-> IF f.exists THEN f.mode ELSE "umask"]

\* Content that is secret material: the encrypted blob or the plaintext token.
HoldsSecret(f) == f.exists /\ f.content \in {"blob", "plain"}

\* run() with the token download moved before the passphrase prompt.
NextStepDownloadFirst(s) ==
    CASE s = "check_gpg" -> "check_curl"
      [] s = "check_curl" -> "download_encrypted_token"
      [] s = "download_encrypted_token" -> "prompt_passphrase"
      [] s = "prompt_passphrase" -> "decrypt_token"
      [] s = "decrypt_token" -> "read_token"
      [] s = "read_token" -> "setup_rpi.py"
      [] s = "setup_rpi.py" -> "config.ini"
      [] s = "config.ini" -> "return"

\* run(): the step that follows step s.
NextStep(s) ==
    CASE s = "check_gpg" -> "check_curl"
      [] s = "check_curl" -> "prompt_passphrase"
      [] s = "prompt_passphrase" -> "download_encrypted_token"
      [] s = "download_encrypted_token" -> "decrypt_token"
      [] s = "decrypt_token" -> "read_token"
      [] s = "read_token" -> "setup_rpi.py"
      [] s = "setup_rpi.py" -> "config.ini"
      [] s = "config.ini" -> "return"

\* The main line is executing run() (no handler, no interpreter exit under way).
InRun == cpc = Idle /\ pc \notin {"atexit", "exited"}

NoAttempts == [f \in TmpNames |-> <<>>]

NoBranch == [f \in TmpNames |-> "none"]

\* A cleanup() invocation starts: secure_rm is entered with the first file.
StartCleanup(handler) ==
    /\ cpc' = [op |-> "shred", i |-> 1]
    /\ inHandler' = handler
    /\ cleanupCalls' = cleanupCalls + 1
    /\ dirty' = FALSE
    /\ attempts' = NoAttempts
    /\ branch' = NoBranch

\* fail() as it would be with os._exit(1): the atexit hook never runs.
failWithoutAtexit(message) ==
    /\ stderr' = Append(stderr, message)
    /\ exitStatus' = 1
    /\ pc' = "exited"
    /\ UNCHANGED <<cpc, inHandler, cleanupCalls, dirty, attempts, branch>>

\* fail(): print the error, sys.exit(1).  SystemExit is not an Exception, so no
\* handler of run() or main() catches it: the interpreter fixes status 1 and
\* runs the atexit hook registered in __init__, i.e. cleanup().
fail(message) ==
    /\ stderr' = Append(stderr, message)
    /\ exitStatus' = 1
    /\ pc' = "atexit"
    /\ StartCleanup(FALSE)

\* A step of run() called fail().
Fails(step, message) ==
    /\ fail(message)
    /\ failedStep' = step
    /\ UNCHANGED okSteps

\* A step of run() returned normally: run() goes on to the next one.
Succeeds(step) ==
    /\ pc' = NextStep(step)
    /\ okSteps' = okSteps \cup {step}
    /\ UNCHANGED <<failedStep, cpc, inHandler, exitStatus, stderr,
                   cleanupCalls, dirty, attempts, branch>>

Started(step) == steps' = Append(steps, step)

\* check_command(cmd): shutil.which finds the tool or fail().
check_command(cmd) ==
    /\ InRun
    /\ pc = "check_" \o cmd
    /\ Started(pc)
    /\ \E found \in BOOLEAN :
          IF found THEN Succeeds(pc) ELSE Fails(pc, cmd \o " not installed")
    /\ UNCHANGED <<files, token, curl, gpg, fetched, envVars, pw, spawned,
                   gpgTimedOut, signals, cleanupDone, snap, raised, authUsed>>

\* prompt_passphrase() without the test of the stripped string.
prompt_passphrase_unchecked ==
    /\ InRun
    /\ pc = "prompt_passphrase"
    /\ Started(pc)
    /\ \E input \in {"error", "empty", "ok"} :
          /\ pw' = input
          /\ IF input = "error"
                THEN Fails(pc, "Failed to read passphrase")
                ELSE Succeeds(pc)
    /\ UNCHANGED <<files, token, curl, gpg, fetched, envVars, spawned,
                   gpgTimedOut, signals, cleanupDone, snap, raised, authUsed>>

\* prompt_passphrase(): getpass raises, or returns a string that is empty
\* after strip(), or returns a passphrase.
prompt_passphrase ==
    /\ InRun
    /\ pc = "prompt_passphrase"
    /\ Started(pc)
    /\ \E input \in {"error", "empty", "ok"} :
          /\ pw' = input
          /\ CASE input = "error" -> Fails(pc, "Failed to read passphrase")
               [] input = "empty" -> Fails(pc, "Empty passphrase provided")
               [] input = "ok" -> Succeeds(pc)
    /\ UNCHANGED <<files, token, curl, gpg, fetched, envVars, spawned,
                   gpgTimedOut, signals, cleanupDone, snap, raised, authUsed>>

\* download_encrypted_token(), first half: subprocess.run starts curl.  An
\* OSError from the spawn is caught by neither except clause and reaches
\* main(), whose `except Exception` calls manager.fail(str(e)).
download_encrypted_token_start ==
    /\ InRun
    /\ pc = "download_encrypted_token"
    /\ Started(pc)
    /\ spawned' = [spawned EXCEPT ![pc] = @ + 1]
    /\ \E spawn \in {"ok", "oserror"} :
          IF spawn = "ok"
             THEN /\ curl' = "running"
                  /\ pc' = "download_encrypted_token_wait"
                  /\ UNCHANGED <<failedStep, okSteps, cpc, inHandler, exitStatus,
                                 stderr, cleanupCalls, dirty, attempts, branch>>
             ELSE /\ Fails(pc, "unexpected exception")
                  /\ UNCHANGED curl
    /\ UNCHANGED <<files, token, gpg, fetched, envVars, pw, gpgTimedOut,
                   signals, cleanupDone, snap, raised, authUsed>>

CurlAlive == curl \in {"running", "wrote"}

\* The curl child writes the response body to tmp_gpg (-o).
CurlWrite ==
    /\ curl = "running"
    /\ curl' = "wrote"
    /\ files' = [files EXCEPT !["tmp_gpg"] = Written(@, "blob")]
    /\ snap' = NoSnap
    /\ dirty' = TRUE
    /\ UNCHANGED <<pc, cpc, inHandler, exitStatus, token, gpg, fetched, stderr,
                   envVars, steps, okSteps, failedStep, pw, spawned, gpgTimedOut,
                   signals, cleanupCalls, cleanupDone, attempts, branch, raised,
                   authUsed>>

\* download_encrypted_token(), second half: subprocess.run returns, raises
\* CalledProcessError (curl -f exited non-zero) or TimeoutExpired (after 30 s;
\* subprocess.run has then killed curl).
download_encrypted_token_return ==
    /\ InRun
    /\ pc = "download_encrypted_token_wait"
    /\ \E outcome \in {"ok", "nonzero", "timeout"} :
          CASE outcome = "ok" ->
                  /\ curl = "wrote"
                  /\ curl' = "exited"
                  /\ Succeeds("download_encrypted_token")
            [] outcome = "nonzero" ->
                  /\ curl' = "exited"
                  /\ Fails("download_encrypted_token", "Failed to download encrypted token")
            [] outcome = "timeout" ->
                  /\ curl' = "killed"
                  /\ Fails("download_encrypted_token", "Download timed out")
    /\ UNCHANGED <<files, token, gpg, fetched, envVars, steps, pw, spawned,
                   gpgTimedOut, signals, cleanupDone, snap, raised, authUsed>>

\* decrypt_token(), first part: Popen starts gpg; an exception from the spawn
\* is caught by `except Exception` (process is None), which calls fail().
decrypt_token_start ==
    /\ InRun
    /\ pc = "decrypt_token"
    /\ Started(pc)
    /\ spawned' = [spawned EXCEPT ![pc] = @ + 1]
    /\ \E spawn \in {"ok", "exception"} :
          IF spawn = "ok"
             THEN /\ gpg' = "running"
                  /\ pc' = "decrypt_token_wait"
                  /\ UNCHANGED <<failedStep, okSteps, cpc, inHandler, exitStatus,
                                 stderr, cleanupCalls, dirty, attempts, branch>>
             ELSE /\ Fails(pc, "Decryption error")
                  /\ UNCHANGED gpg
    /\ UNCHANGED <<files, token, curl, fetched, envVars, pw, gpgTimedOut,
                   signals, cleanupDone, snap, raised, authUsed>>

\* The gpg child reads its input file tmp_gpg; without an encrypted blob in
\* it there is nothing to decrypt and gpg exits.
GpgRead ==
    /\ gpg = "running"
    /\ gpg' = IF files["tmp_gpg"].exists /\ files["tmp_gpg"].content = "blob"
                 THEN "read" ELSE "exited"
    /\ UNCHANGED <<pc, cpc, inHandler, exitStatus, files, token, curl, fetched,
                   stderr, envVars, histVars>>

\* The gpg child writes the plaintext to tmp_token (--output, --yes): a token,
\* or text that is empty after strip().
GpgWrite ==
    /\ gpg = "read"
    /\ gpg' = "wrote"
    /\ \E c \in {"plain", "blank"} :
          files' = [files EXCEPT !["tmp_token"] = Written(@, c)]
    /\ snap' = NoSnap
    /\ dirty' = TRUE
    /\ UNCHANGED <<pc, cpc, inHandler, exitStatus, token, curl, fetched, stderr,
                   envVars, steps, okSteps, failedStep, pw, spawned, gpgTimedOut,
                   signals, cleanupCalls, cleanupDone, attempts, branch, raised,
                   authUsed>>

\* decrypt_token(), second part: communicate(timeout=10) returns with
\* returncode 0, returns with a non-zero returncode, or raises TimeoutExpired.
decrypt_token_return ==
    /\ InRun
    /\ pc = "decrypt_token_wait"
    /\ \E outcome \in {"ok", "nonzero", "timeout"} :
          CASE outcome = "ok" ->
                  /\ gpg = "wrote"
                  /\ gpg' = "exited"
                  /\ Succeeds("decrypt_token")
                  /\ UNCHANGED gpgTimedOut
            [] outcome = "nonzero" ->
                  /\ gpg \in {"running", "read", "exited"}
                  /\ gpg' = "exited"
                  /\ Fails("decrypt_token", "GPG decryption failed")
                  /\ UNCHANGED gpgTimedOut
            [] outcome = "timeout" ->
                  /\ gpg \in {"running", "read", "wrote"}
                  /\ gpgTimedOut' = TRUE
                  /\ pc' = "decrypt_token_timeout"
                  /\ UNCHANGED <<gpg, failedStep, okSteps, cpc, inHandler,
                                 exitStatus, stderr, cleanupCalls, dirty, attempts, branch>>
    /\ UNCHANGED <<files, token, curl, fetched, envVars, steps, pw, spawned,
                   signals, cleanupDone, snap, raised, authUsed>>

\* decrypt_token(), `except subprocess.TimeoutExpired`: process.kill(), then fail().
decrypt_token_timeout ==
    /\ InRun
    /\ pc = "decrypt_token_timeout"
    /\ gpg' = "killed"
    /\ Fails("decrypt_token", "GPG decryption timed out")
    /\ UNCHANGED <<files, token, curl, fetched, envVars, steps, pw, spawned,
                   gpgTimedOut, signals, cleanupDone, snap, raised, authUsed>>

\* read_token() without the test of the stripped text: an empty string is returned.
read_token_unchecked ==
    /\ InRun
    /\ pc = "read_token"
    /\ Started(pc)
    /\ CASE ~files["tmp_token"].exists ->
               /\ Fails(pc, "Failed to read token file")
               /\ UNCHANGED token
         [] files["tmp_token"].exists /\ files["tmp_token"].content = "plain" ->
               /\ token' = "tok"
               /\ Succeeds(pc)
         [] files["tmp_token"].exists /\ files["tmp_token"].content \in {"empty", "blank"} ->
               /\ token' = ""
               /\ Succeeds(pc)
    /\ UNCHANGED <<files, curl, gpg, fetched, envVars, pw, spawned, gpgTimedOut,
                   signals, cleanupDone, snap, raised, authUsed>>

\* self.token = self.read_token(): the file cannot be opened (IOError), its
\* stripped text is empty, or the text becomes self.token.
read_token ==
    /\ InRun
    /\ pc = "read_token"
    /\ Started(pc)
    /\ CASE ~files["tmp_token"].exists ->
               /\ Fails(pc, "Failed to read token file")
               /\ UNCHANGED token
         [] files["tmp_token"].exists /\ files["tmp_token"].content = "plain" ->
               /\ token' = "tok"
               /\ Succeeds(pc)
         [] files["tmp_token"].exists /\ files["tmp_token"].content \in {"empty", "blank"} ->
               /\ Fails(pc, "Decrypted token file is empty")
               /\ UNCHANGED token
    /\ UNCHANGED <<files, curl, gpg, fetched, envVars, pw, spawned, gpgTimedOut,
                   signals, cleanupDone, snap, raised, authUsed>>

\* download_file(url, output): curl with `Authorization: token {self.token}`
\* writes output, exits non-zero, or is killed after 30 s.
download_file(output) ==
    /\ InRun
    /\ pc = output
    /\ Started(pc)
    /\ spawned' = [spawned EXCEPT ![pc] = @ + 1]
    /\ authUsed' = authUsed \cup {token}
    /\ \E outcome \in {"ok", "nonzero", "timeout"} :
          CASE outcome = "ok" ->
                  /\ fetched' = fetched \cup {output}
                  /\ Succeeds(pc)
            [] outcome = "nonzero" ->
                  /\ Fails(pc, "Failed to download " \o output)
                  /\ UNCHANGED fetched
            [] outcome = "timeout" ->
                  /\ Fails(pc, "Download of " \o output \o " timed out")
                  /\ UNCHANGED fetched
    /\ UNCHANGED <<files, token, curl, gpg, envVars, pw, gpgTimedOut, signals,
                   cleanupDone, snap, raised>>

\* run() prints the success line and returns, main() returns: the interpreter
\* exits with status 0 and runs the atexit hook.
run_return ==
    /\ InRun
    /\ pc = "return"
    /\ exitStatus' = 0
    /\ pc' = "atexit"
    /\ StartCleanup(FALSE)
    /\ UNCHANGED <<files, token, curl, gpg, fetched, stderr, envVars, steps,
                   okSteps, failedStep, pw, spawned, gpgTimedOut, signals,
                   cleanupDone, snap, raised, authUsed>>

\* SIGINT or SIGTERM is delivered while the process is alive: _signal_handler
\* starts on top of whatever was executing and calls self.cleanup().
signal_handler ==
    /\ pc # "exited"
    /\ signals < MaxSignals
    /\ signals' = signals + 1
    /\ StartCleanup(TRUE)
    /\ UNCHANGED <<pc, exitStatus, files, token, curl, gpg, fetched, stderr,
                   envVars, steps, okSteps, failedStep, pw, spawned, gpgTimedOut,
                   cleanupDone, snap, raised, authUsed>>

\* os.path.exists(filepath)
PathExists(f) == f.exists

\* `shred -vfz -n 3` (no -u): the content is overwritten, last with zeros, and
\* the file is kept; an empty file stays empty.
Shredded(f) ==
    [f EXCEPT !.content = IF f.content = "empty" THEN "empty" ELSE "zeros"]

\* The except clause of secure_rm without TimeoutExpired.
ShredFailureCaughtNoTimeout(result) == result \in {"nonzero", "missing"}

\* except (CalledProcessError, FileNotFoundError, TimeoutExpired)
ShredFailureCaught(result) == result \in {"nonzero", "missing", "timeout"}

\* secure_rm with the OSError of os.remove left to propagate.
OSErrorPropagates == FALSE

\* except OSError: pass
OSErrorSuppressed == TRUE

\* secure_rm goes on to the next file; after the last, cleanup() clears the token.
NextPos(i) ==
    IF i < Len(TmpFiles) THEN [op |-> "shred", i |-> i + 1]
                         ELSE [op |-> "clear", i |-> 0]

Raise == [op |-> "raise", i |-> 0]

\* secure_rm, one file: skip it if it does not exist, else run shred on it;
\* a caught failure of shred leads to the os.remove fallback.
secure_rm_shred ==
    /\ cpc.op = "shred"
    /\ LET f == TmpFiles[cpc.i]
           r == shredResult[f]
       IN  CASE ~PathExists(files[f]) ->
                   /\ cpc' = NextPos(cpc.i)
                   /\ branch' = [branch EXCEPT ![f] = "absent"]
                   /\ UNCHANGED <<files, attempts, raised>>
             [] PathExists(files[f]) /\ r = "ok" ->
                   /\ files' = [files EXCEPT ![f] = Shredded(@)]
                   /\ cpc' = NextPos(cpc.i)
                   /\ attempts' = [attempts EXCEPT ![f] = Append(@, "shred")]
                   /\ branch' = [branch EXCEPT ![f] = "shredded"]
                   /\ UNCHANGED raised
             [] PathExists(files[f]) /\ r # "ok" /\ ShredFailureCaught(r) ->
                   /\ cpc' = [op |-> "remove", i |-> cpc.i]
                   /\ attempts' = [attempts EXCEPT ![f] = Append(@, "shred")]
                   /\ UNCHANGED <<files, branch, raised>>
             [] PathExists(files[f]) /\ r # "ok" /\ ~ShredFailureCaught(r) ->
                   /\ cpc' = Raise
                   /\ raised' = TRUE
                   /\ attempts' = [attempts EXCEPT ![f] = Append(@, "shred")]
                   /\ UNCHANGED <<files, branch>>
    /\ UNCHANGED <<pc, inHandler, exitStatus, token, curl, gpg, fetched, stderr,
                   envVars, steps, okSteps, failedStep, pw, spawned, gpgTimedOut,
                   signals, cleanupCalls, dirty, cleanupDone, snap, authUsed>>

\* secure_rm, fallback: os.remove(filepath); an OSError is passed over.
secure_rm_remove ==
    /\ cpc.op = "remove"
    /\ LET f == TmpFiles[cpc.i]
       IN  /\ attempts' = [attempts EXCEPT ![f] = Append(@, "remove")]
           /\ CASE removeOk[f] /\ files[f].exists ->
                     /\ files' = [files EXCEPT ![f] = Absent]
                     /\ cpc' = NextPos(cpc.i)
                     /\ branch' = [branch EXCEPT ![f] = "removed"]
                     /\ UNCHANGED raised
                [] ~(removeOk[f] /\ files[f].exists) /\ OSErrorSuppressed ->
                     /\ cpc' = NextPos(cpc.i)
                     /\ branch' = [branch EXCEPT ![f] = "remove_failed"]
                     /\ UNCHANGED <<files, raised>>
                [] ~(removeOk[f] /\ files[f].exists) /\ ~OSErrorSuppressed ->
                     /\ cpc' = Raise
                     /\ raised' = TRUE
                     /\ branch' = [branch EXCEPT ![f] = "remove_failed"]
                     /\ UNCHANGED files
    /\ UNCHANGED <<pc, inHandler, exitStatus, token, curl, gpg, fetched, stderr,
                   envVars, steps, okSteps, failedStep, pw, spawned, gpgTimedOut,
                   signals, cleanupCalls, dirty, cleanupDone, snap, authUsed>>

\* What follows the end of a cleanup() invocation.
\*  - Called by _signal_handler: sys.exit(1).  SystemExit unwinds everything
\*    the handler interrupted; a subprocess.run(curl) on the way kills its
\*    child (`except: process.kill(); raise`), the Popen of decrypt_token does
\*    not.  If the interpreter was not yet exiting, it now exits with status 1
\*    and runs the atexit hook.  If the handler had interrupted the atexit
\*    hook, SystemExit ends that hook and is discarded: the exit status fixed
\*    before stays.
\*  - Called as the atexit hook: the process exits.
AfterCleanup ==
    IF inHandler
       THEN /\ curl' = IF CurlAlive THEN "killed" ELSE curl
            /\ IF pc = "atexit"
                  THEN /\ pc' = "exited"
                       /\ cpc' = Idle
                       /\ inHandler' = FALSE
                       /\ UNCHANGED <<exitStatus, cleanupCalls, dirty, attempts, branch>>
                  ELSE /\ exitStatus' = 1
                       /\ pc' = "atexit"
                       /\ StartCleanup(FALSE)
       ELSE /\ pc' = "exited"
            /\ cpc' = Idle
            /\ UNCHANGED <<curl, inHandler, exitStatus, cleanupCalls, dirty, attempts, branch>>

\* cleanup(), after secure_rm: self.token = None, and the invocation ends.
\* (An exception out of secure_rm ends it without clearing the token.)
cleanup_return ==
    /\ cpc.op \in {"clear", "raise"}
    /\ IF cpc.op = "clear"
          THEN /\ token' = "None"
               /\ cleanupDone' = cleanupDone + 1
               /\ snap' = [valid |-> TRUE, files |-> files, token |-> token', clean |-> ~dirty]
          ELSE UNCHANGED <<token, cleanupDone, snap>>
    /\ AfterCleanup
    /\ UNCHANGED <<files, gpg, fetched, stderr, envVars, steps, okSteps,
                   failedStep, pw, spawned, gpgTimedOut, signals, raised, authUsed>>

\* The results shred can have on the files of one run: not installed
\* (FileNotFoundError on every call), or per file success, a non-zero exit
\* status, or no end within 5 s.
ShredResults ==
    [TmpNames -> {"ok", "nonzero", "timeout"}] \cup {[f \in TmpNames |-> "missing"]}

\* The state when TokenManager() has returned in main().
Init ==
    /\ pc = "check_gpg"
    /\ cpc = Idle
    /\ inHandler = FALSE
    /\ exitStatus = -1
    /\ files = [f \in TmpNames |-> NewTempFile]
    /\ token = "None"
    /\ curl = "none"
    /\ gpg = "none"
    /\ fetched = {}
    /\ stderr = <<>>
    /\ shredResult \in ShredResults
    /\ removeOk \in [TmpNames -> BOOLEAN]
    /\ steps = <<>>
    /\ okSteps = {}
    /\ failedStep = "none"
    /\ pw = "unset"
    /\ spawned = [s \in {"download_encrypted_token", "decrypt_token"} \cup Targets |-> 0]
    /\ gpgTimedOut = FALSE
    /\ signals = 0
    /\ cleanupCalls = 0
    /\ dirty = FALSE
    /\ cleanupDone = 0
    /\ attempts = NoAttempts
    /\ branch = NoBranch
    /\ snap = NoSnap
    /\ raised = FALSE
    /\ authUsed = {}

Next ==
    \/ \E cmd \in {"gpg", "curl"} : check_command(cmd)
    \/ prompt_passphrase
    \/ download_encrypted_token_start
    \/ CurlWrite
    \/ download_encrypted_token_return
    \/ decrypt_token_start
    \/ GpgRead
    \/ GpgWrite
    \/ decrypt_token_return
    \/ decrypt_token_timeout
    \/ read_token
    \/ \E output \in Targets : download_file(output)
    \/ run_return
    \/ signal_handler
    \/ secure_rm_shred
    \/ secure_rm_remove
    \/ cleanup_return

Spec == Init /\ [][Next]_vars

TypeOK ==
    /\ pc \in {"check_gpg", "check_curl", "prompt_passphrase", "download_encrypted_token",
               "download_encrypted_token_wait", "decrypt_token", "decrypt_token_wait",
               "decrypt_token_timeout", "read_token", "setup_rpi.py", "config.ini",
               "return", "atexit", "exited"}
    /\ cpc.op \in {"idle", "shred", "remove", "clear", "raise"}
    /\ exitStatus \in {-1, 0, 1}
    /\ token \in {"None", "tok", ""}
    /\ signals \in 0..MaxSignals

Exited == pc = "exited"

\* Curl calls made so far (download_encrypted_token and download_file).
NetworkCalls ==
    spawned["download_encrypted_token"] + spawned["setup_rpi.py"] + spawned["config.ini"]

\* The order of steps the specification gives for run().
ClaimedOrder ==
    <<"check_gpg", "check_curl", "prompt_passphrase", "download_encrypted_token",
      "decrypt_token", "read_token", "setup_rpi.py", "config.ini">>

IsPrefix(s, t) == Len(s) <= Len(t) /\ \A i \in 1..Len(s) : s[i] = t[i]

\* The latest cleanup() deleted or overwrote every file it found: no
\* os.remove fallback failed.
DeletionWorked == \A f \in TmpNames : branch[f] # "remove_failed"

\* C1: once a cleanup() invocation has run to its end and none is executing
\* (which is the case from process exit on), neither temporary file holds the
\* encrypted blob or the plaintext token and self.token is None.  Stated for
\* the runs in which every deletion cleanup() attempted worked.
C1_NoSecretAfterCleanup ==
    (cleanupDone >= 1 /\ cpc = Idle /\ DeletionWorked) =>
        /\ \A f \in TmpNames : ~HoldsSecret(files[f])
        /\ token = "None"

\* C2: at process exit no temporary file exists with non-empty content, and
\* after a successful run both temporary files no longer exist, on the
\* shred-succeeded branch as on the os.remove branch of secure_rm.
C2_TempFilesGoneAtExit ==
    (Exited /\ DeletionWorked) =>
        /\ \A f \in TmpNames : ~(files[f].exists /\ files[f].content # "empty")
        /\ exitStatus = 0 => \A f \in TmpNames : ~files[f].exists

\* C3: on every path on which the process terminates, a cleanup() invocation
\* has run to its end before the process exits.
C3_CleanupBeforeExit == Exited => cleanupDone >= 1

\* The process has exited after an exception nobody in run() catches reached main().
C3_Witness ==
    Exited /\ stderr = <<"unexpected exception">> /\ signals = 0 /\ cleanupDone = 1

\* C4: when a signal is delivered before the process has exited, cleanup() is
\* invoked exactly once in that run, no error comes out of it, and the exit
\* status is 1.
C4_SignalCleansUpOnce ==
    (Exited /\ signals = 1) => (cleanupCalls = 1 /\ ~raised /\ exitStatus = 1)

\* C5: the exit status is 0 only if every step succeeded and both target files
\* were downloaded, and it is 1 whenever a step failed or a signal arrived.
C5_ExitStatus ==
    Exited =>
        /\ exitStatus = 0 =>
              (okSteps = {ClaimedOrder[i] : i \in 1..Len(ClaimedOrder)} /\ fetched = Targets)
        /\ (failedStep # "none" \/ signals >= 1) => exitStatus = 1

\* C6: if prompt_passphrase obtained a string that is empty after strip(), no
\* curl has been started at any point of the run and the exit status is 1.
C6_EmptyPassphraseNoNetwork ==
    pw = "empty" =>
        /\ NetworkCalls = 0
        /\ curl = "none"
        /\ exitStatus = 1
        /\ pc \in {"atexit", "exited"}

C6_Witness == pw = "empty" /\ Exited /\ exitStatus = 1

\* C7: if communicate() on gpg ran into its 10 s timeout, then at process exit
\* gpg has been killed, the exit status is 1, neither read_token nor
\* download_file was started, and no temporary file holds secret material.
\* Stated for the runs in which every deletion cleanup() attempted worked.
C7_TimeoutKillsAndErases ==
    (gpgTimedOut /\ Exited /\ DeletionWorked) =>
        /\ gpg = "killed"
        /\ exitStatus = 1
        /\ \A i \in 1..Len(steps) : steps[i] \notin ({"read_token"} \cup Targets)
        /\ \A f \in TmpNames : ~HoldsSecret(files[f])

\* C8: the steps of run() start in the fixed order, each only after all
\* earlier ones succeeded; the step that fails is the last one started; no
\* network or decryption subprocess is started twice.
C8_FixedOrderNoRetry ==
    /\ IsPrefix(steps, ClaimedOrder)
    /\ \A i \in 1..(Len(steps) - 1) : steps[i] \in okSteps
    /\ failedStep # "none" => steps[Len(steps)] = failedStep
    /\ \A s \in DOMAIN spawned : spawned[s] <= 1

\* All eight steps ran and one subprocess was started for each of the four
\* network and decryption steps.
C8_Witness ==
    /\ Exited
    /\ steps = ClaimedOrder
    /\ \A s \in DOMAIN spawned : spawned[s] = 1

C10_CleanupFailuresSuppressed ==
    /\ \A f \in TmpNames :
          /\ attempts[f] \in {<<>>, <<"shred">>, <<"shred", "remove">>}
          /\ attempts[f] = <<"shred", "remove">> => shredResult[f] # "ok"
    /\ cpc.op = "clear" =>
          \A f \in TmpNames :
             /\ branch[f] # "none"
             /\ branch[f] # "absent" => Len(attempts[f]) >= 1
             /\ (branch[f] # "absent" /\ shredResult[f] # "ok") =>
                    attempts[f] = <<"shred", "remove">>
    /\ ~raised
    /\ Len(stderr) = IF failedStep = "none" THEN 0 ELSE 1
    /\ Exited => token = "None"
    /\ (Exited /\ signals = 0) => exitStatus = IF failedStep = "none" THEN 0 ELSE 1

\* A successful run has exited with status 0 although shred and os.remove
\* both failed on tmp_gpg; tmp_token was still processed and the token cleared.
C10_Witness ==
    /\ Exited
    /\ exitStatus = 0
    /\ branch["tmp_gpg"] = "remove_failed"
    /\ branch["tmp_token"] \in {"shredded", "removed"}
    /\ token = "None"

\* C11: in every reachable state, a temporary file that holds any content has
\* owner-only permission (0600).
C11_OwnerOnlyWhileContent ==
    \A f \in TmpNames :
        (files[f].exists /\ files[f].content # "empty") => files[f].mode = "0600"

\* C12: self.token is None until read_token has succeeded and again once a
\* cleanup() invocation has run to its end; every Authorization header sent by
\* download_file carried a non-empty token, read after decrypt_token and
\* read_token had succeeded.
C12_TokenLifetime ==
    /\ "read_token" \notin okSteps => token = "None"
    /\ cleanupDone >= 1 => token = "None"
    /\ \A t \in authUsed : t \notin {"None", ""}
    /\ authUsed # {} => {"decrypt_token", "read_token"} \subseteq okSteps

\* Both authenticated downloads were issued with the token, and a completed
\* cleanup() has cleared it since.
C12_Witness ==
    /\ authUsed = {"tok"}
    /\ spawned["setup_rpi.py"] = 1
    /\ spawned["config.ini"] = 1
    /\ cleanupDone >= 1
    /\ token = "None"

====
